---- MODULE Spec2Model ----
(***************************************************************************)
(* Model of the search route of shopmylook (src/src/app/api/search/route.ts, *)
(* the AI-as-Judge POST handler, lines 17-166): price parsing, brand       *)
(* classification, visual scoring fan-out, hybrid ranking and the curated  *)
(* price-tier trio.                                                        *)
(*                                                                         *)
(* JavaScript strings are sequences of one-character strings.  Numbers are *)
(* fixed-point integers: a price p is held as p * PriceScale.  NaN and     *)
(* undefined are the sentinels NaN and Undefined, and every comparison on  *)
(* numbers goes through NumLt/NumGe/NumLe, which are false on NaN as in    *)
(* IEEE-754.                                                               *)
(***************************************************************************)
EXTENDS Integers, Sequences, FiniteSets, TLC

VARIABLES
    pc,                 \* position of the POST handler: start, fetching, compressing, scoring, done
    query,              \* request body field `query`
    imageBase64,        \* request body field `imageBase64`
    serpapiResponse,    \* what getJson resolved with, NotFetched before that
    highQualityResults, \* the candidate pool (filtered, later scored and sorted in place)
    scorePromises,      \* one promise per candidate of the pool
    bestBudget,         \* bucket picks before the fallback (line 133-135), NoItem when undefined
    bestMidRange,
    bestPremiumPick,
    bestPremium,        \* bestPremium after the fallback block (line 144-151)
    usedPositions,      \* the Set<number> of line 137
    leftoverInitial,    \* leftoverPool as built at line 142
    leftoverPool,       \* leftoverPool after the fallback block
    finalResults,       \* the array serialised as `data`
    response,           \* the NextResponse, NoResponse until the handler returns
    serpCalls,          \* number of getJson calls issued
    oracleCalls,        \* number of model.generateContent calls issued
    priceInput,         \* argument of a direct parsePrice call
    priceOutput         \* its return value, NotCalled before the call

vars ==
    << pc, query, imageBase64, serpapiResponse, highQualityResults, scorePromises,
       bestBudget, bestMidRange, bestPremiumPick, bestPremium, usedPositions,
       leftoverInitial, leftoverPool, finalResults, response, serpCalls, oracleCalls,
       priceInput, priceOutput >>

handlerVars ==
    << pc, query, imageBase64, serpapiResponse, highQualityResults, scorePromises,
       bestBudget, bestMidRange, bestPremiumPick, bestPremium, usedPositions,
       leftoverInitial, leftoverPool, finalResults, response, serpCalls, oracleCalls >>

----------------------------------------------------------------------------
(* Bounds *)

\* longest string enumerated as a direct parsePrice argument
MaxPriceLen ==
    3

\* most listings the shopping source returns in one response
MaxPool ==
    3

----------------------------------------------------------------------------
(* JavaScript values *)

\* null / undefined where a string is expected
Null ==
    << "null" >>

\* NaN, the result of parseFloat on a string with no leading number
NaN ==
    -1

\* undefined where a number is expected (reviews, visual_score, final_score)
Undefined ==
    -2

\* !s for a string-or-missing value: "", null and undefined are falsy
Falsy(s) ==
    s = Null \/ s = << >>

Digits ==
    {"0", "1", "2", "3", "4", "5", "6", "7", "8", "9"}

DigitVal ==
    ("0" :> 0) @@ ("1" :> 1) @@ ("2" :> 2) @@ ("3" :> 3) @@ ("4" :> 4) @@
    ("5" :> 5) @@ ("6" :> 6) @@ ("7" :> 7) @@ ("8" :> 8) @@ ("9" :> 9)

RECURSIVE Pow10(_)
Pow10(n) ==
    IF n = 0 THEN 1 ELSE 10 * Pow10(n - 1)

\* fixed-point unit: every enumerated price is exact to 1/PriceScale
PriceScale ==
    Pow10(MaxPriceLen)

Max2(a, b) ==
    IF a >= b THEN a ELSE b

\* IEEE-754 comparisons: any comparison with NaN is false
NumLt(a, b) ==
    a # NaN /\ b # NaN /\ a < b

NumGe(a, b) ==
    a # NaN /\ b # NaN /\ a >= b

NumLe(a, b) ==
    a # NaN /\ b # NaN /\ a <= b

----------------------------------------------------------------------------
(* Price Parser, route.ts 17-20 *)

\* price.replace(/[^0-9.]/g, '')
StripNonNumeric(s) ==
    SelectSeq(s, LAMBDA c : c \in Digits \cup {"."})

\* length of the longest prefix of s[from..] made of digits
RECURSIVE DigitRun(_, _)
DigitRun(s, from) ==
    IF from <= Len(s) /\ s[from] \in Digits
    THEN 1 + DigitRun(s, from + 1)
    ELSE 0

\* value of a run of digits as an integer
RECURSIVE IntVal(_)
IntVal(d) ==
    IF d = << >> THEN 0
    ELSE 10 * IntVal(SubSeq(d, 1, Len(d) - 1)) + DigitVal[d[Len(d)]]

\* value of the digits after the decimal point, in units of 1/PriceScale
RECURSIVE FracVal(_, _)
FracVal(d, unit) ==
    IF d = << >> \/ unit = 0 THEN 0
    ELSE DigitVal[d[1]] * unit + FracVal(Tail(d), unit \div 10)

\* parseFloat on a string of digits and dots: the longest prefix that is a
\* decimal literal (digits, optional '.', optional digits; or '.' digits),
\* NaN when there is none
parseFloat(s) ==
    LET n1 == DigitRun(s, 1)
        hasDot == n1 < Len(s) /\ s[n1 + 1] = "."
        n2 == IF hasDot THEN DigitRun(s, n1 + 2) ELSE 0
    IN  IF n1 = 0 /\ n2 = 0 THEN NaN
        ELSE IntVal(SubSeq(s, 1, n1)) * PriceScale
             + FracVal(SubSeq(s, n1 + 2, n1 + 1 + n2), PriceScale \div 10)

parsePrice(price) ==
    IF Falsy(price) THEN 0
    ELSE parseFloat(StripNonNumeric(price))

----------------------------------------------------------------------------
(* Brand Classifier, route.ts 21-35 *)

MID_RANGE_BRANDS ==
    << <<"n","i","k","e">>,
       <<"a","d","i","d","a","s">>,
       <<"j",".","c","r","e","w">>,
       <<"b","a","n","a","n","a"," ","r","e","p","u","b","l","i","c">>,
       <<"m","a","d","e","w","e","l","l">>,
       <<"l","e","v","i","'","s">>,
       <<"e","v","e","r","l","a","n","e">>,
       <<"r","e","f","o","r","m","a","t","i","o","n">>,
       <<"c","a","l","v","i","n"," ","k","l","e","i","n">>,
       <<"t","o","m","m","y"," ","h","i","l","f","i","g","e","r">>,
       <<"p","o","l","o"," ","r","a","l","p","h"," ","l","a","u","r","e","n">>,
       <<"u","n","d","e","r"," ","a","r","m","o","u","r">>,
       <<"l","u","l","u","l","e","m","o","n">>,
       <<"p","a","t","a","g","o","n","i","a">>,
       <<"t","h","e"," ","n","o","r","t","h"," ","f","a","c","e">>,
       <<"z","a","r","a">> >>

PREMIUM_BRANDS ==
    << <<"g","u","c","c","i">>,
       <<"p","r","a","d","a">>,
       <<"s","a","i","n","t"," ","l","a","u","r","e","n","t">>,
       <<"b","a","l","e","n","c","i","a","g","a">>,
       <<"b","u","r","b","e","r","r","y">>,
       <<"m","o","n","c","l","e","r">>,
       <<"l","o","e","w","e">>,
       <<"f","e","n","d","i">>,
       <<"v","e","r","s","a","c","e">>,
       <<"g","i","v","e","n","c","h","y">>,
       <<"a","l","e","x","a","n","d","e","r"," ","m","c","q","u","e","e","n">>,
       <<"a","c","n","e"," ","s","t","u","d","i","o","s">>,
       <<"a","m","i"," ","p","a","r","i","s">>,
       <<"c","a","n","a","d","a"," ","g","o","o","s","e">>,
       <<"s","t","o","n","e"," ","i","s","l","a","n","d">> >>

\* String.prototype.toLowerCase on the letters the enumerated titles use
LowerOf ==
    ("A" :> "a") @@ ("C" :> "c") @@ ("G" :> "g") @@ ("P" :> "p") @@
    ("R" :> "r") @@ ("W" :> "w") @@ ("Z" :> "z")

toLowerCase(s) ==
    [i \in 1..Len(s) |-> IF s[i] \in DOMAIN LowerOf THEN LowerOf[s[i]] ELSE s[i]]

\* String.prototype.includes: sub occurs in s as a substring
includes(s, sub) ==
    \E i \in 0..(Len(s) - Len(sub)) : SubSeq(s, i + 1, i + Len(sub)) = sub

containsKnownBrand(title, brandList) ==
    IF Falsy(title) THEN FALSE
    ELSE LET lowerCaseTitle == toLowerCase(title)
         IN  \E k \in 1..Len(brandList) : includes(lowerCaseTitle, brandList[k])

----------------------------------------------------------------------------
(* Listings and the shopping source, route.ts 37-47 and 55-64 *)

\* undefined where an object is expected (array[0] of an empty array)
NoItem ==
    [none |-> TRUE]

\* the listings the shopping source can return (title, thumbnail, price,
\* reviews); `position` is assigned by the source per response
Catalogue ==
    { [title |-> <<"P","l","a","i","n"," ","t","e","e">>, thumbnail |-> <<"t">>,
       price |-> <<"$","4","0">>, reviews |-> 5],
      [title |-> <<"Z","A","R","A"," ","c","o","a","t">>, thumbnail |-> <<"t">>,
       price |-> <<"$","7","5">>, reviews |-> Undefined],
      [title |-> <<"W","o","o","l"," ","c","o","a","t">>, thumbnail |-> <<"t">>,
       price |-> <<"$","1","0","0",".","5">>, reviews |-> 0],
      [title |-> <<"G","u","c","c","i"," ","b","a","g">>, thumbnail |-> <<"t">>,
       price |-> <<"$","2","5","0">>, reviews |-> 20],
      [title |-> Null, thumbnail |-> <<"t">>,
       price |-> <<"N","/","A">>, reviews |-> Undefined],
      [title |-> <<"P","l","a","i","n"," ","t","e","e">>, thumbnail |-> << >>,
       price |-> <<"$","1","0">>, reviews |-> 5],
      [title |-> <<"G","u","c","c","i"," ","b","a","g">>, thumbnail |-> <<"t">>,
       price |-> Null, reviews |-> 0] }

\* two more listings: a second price of the Affordable bracket and a
\* Premium-priced title without a known brand
ExtraListings ==
    { [title |-> <<"P","l","a","i","n"," ","t","e","e">>, thumbnail |-> <<"t">>,
       price |-> <<"$","1","0">>, reviews |-> 0],
      [title |-> <<"W","o","o","l"," ","c","o","a","t">>, thumbnail |-> <<"t">>,
       price |-> <<"$","3","0","0">>, reviews |-> 5] }

\* the listings enumerated for a request: requests that send an image, whose
\* every candidate costs an oracle call, draw from Catalogue; requests
\* without an image draw from Catalogue and ExtraListings
CatalogueFor(image) ==
    IF Falsy(image) THEN Catalogue \cup ExtraListings ELSE Catalogue

\* a response of n listings: the source ranks them 1..n in `position`;
\* visual_score and final_score are not set by the source
Listings(f) ==
    [i \in DOMAIN f |->
        [title |-> f[i].title, thumbnail |-> f[i].thumbnail, price |-> f[i].price,
         reviews |-> f[i].reviews, position |-> i,
         visual_score |-> Undefined, final_score |-> Undefined]]

NotFetched ==
    [pending |-> TRUE]

\* what getJson can resolve with: a body without shopping_results, or one
\* with 0..MaxPool listings
SerpapiResponses ==
    { [search_metadata |-> "Success"] } \cup
    { [shopping_results |-> Listings(f)] :
        f \in UNION { [1..n -> CatalogueFor(imageBase64)] : n \in 0..MaxPool } }

\* (r) => r.price && r.thumbnail, with only the price test
highQualityFilterPriceOnly(r) ==
    ~Falsy(r.price)

\* (r) => r.price && r.thumbnail
highQualityFilter(r) ==
    ~Falsy(r.price) /\ ~Falsy(r.thumbnail)

\* serpapiResponse.shopping_results?.filter(...) || []
filterHighQuality(resp) ==
    IF "shopping_results" \in DOMAIN resp
    THEN SelectSeq(resp.shopping_results, highQualityFilter)
    ELSE << >>

----------------------------------------------------------------------------
(* Array.prototype.sort *)

\* indices 1..n of keys in stable sorted order (ascending, or descending
\* when desc): index n goes after every earlier index it does not precede
RECURSIVE SortedIdx(_, _, _)
SortedIdx(keys, n, desc) ==
    IF n = 0 THEN << >>
    ELSE LET L == SortedIdx(keys, n - 1, desc)
             k == Cardinality({ j \in 1..Len(L) :
                                  IF desc THEN keys[L[j]] >= keys[n]
                                          ELSE keys[L[j]] <= keys[n] })
         IN  SubSeq(L, 1, k) \o << n >> \o SubSeq(L, k + 1, Len(L))

\* a comparator (a, b) => key(a) - key(b) returns NaN when a key is NaN,
\* which sort treats as +0; it is a consistent comparison function only if
\* no key is NaN or all the other keys are equal
ConsistentComparator(keys) ==
    \/ \A i \in DOMAIN keys : keys[i] # NaN
    \/ \A i, j \in DOMAIN keys : keys[i] # NaN /\ keys[j] # NaN => keys[i] = keys[j]

\* the arrays seq.sort(by key) can leave: the stable sort for a consistent
\* comparator (every pair compares equal when a key is NaN, so the order is
\* kept), any permutation otherwise (implementation-defined order)
SortOutcomes(seq, keys, desc) ==
    LET n == Len(seq) IN
    IF ConsistentComparator(keys)
    THEN IF \E i \in DOMAIN keys : keys[i] = NaN
         THEN { seq }
         ELSE { [i \in 1..n |-> seq[SortedIdx(keys, n, desc)[i]]] }
    ELSE { [i \in 1..n |-> seq[p[i]]] :
             p \in { q \in [1..n -> 1..n] : \A i, j \in 1..n : q[i] = q[j] => i = j } }

----------------------------------------------------------------------------
(* Visual Ranking Layer, route.ts 79-117 *)

Pending ==
    [st |-> "pending"]

Rejected ==
    [st |-> "rejected"]

\* the visual_score values a well-formed oracle answer carries
OracleScores ==
    {3, 9}

\* settled generateContent promises: rejected, fulfilled with text that
\* JSON.parse rejects, or fulfilled with {"visual_score": n}
OracleOutcomes ==
    { Rejected, [st |-> "fulfilled", json |-> FALSE, visual_score |-> 0] } \cup
    { [st |-> "fulfilled", json |-> TRUE, visual_score |-> n] : n \in OracleScores }

\* the try/catch of lines 97-105: scoreObject.visual_score || 0, or 0 when
\* the text does not parse
parsedVisualScore(p) ==
    IF p.json THEN p.visual_score ELSE 0

reviewsOrZero(r) ==
    IF r.reviews = Undefined THEN 0 ELSE r.reviews

RECURSIVE MaxOf(_)
MaxOf(S) ==
    IF S = {} THEN 0
    ELSE LET x == CHOOSE y \in S : TRUE IN Max2(x, MaxOf(S \ {x}))

\* Math.max(...pool.map(r => r.reviews || 0), 1)
maxReviews(pool) ==
    Max2(MaxOf({ reviewsOrZero(pool[i]) : i \in DOMAIN pool }), 1)

\* the hybrid score with the two weights exchanged (0.2 visual, 0.8 popularity)
finalScoreSwappedWeights(r, maxRev) ==
    2 * r.visual_score * maxRev + 80 * reviewsOrZero(r)

\* (visual_score / 10 * 0.8) + (popularityScore * 0.2), held as the exact
\* integer final_score * 100 * maxReviews
finalScore(r, maxRev) ==
    8 * r.visual_score * maxRev + 20 * reviewsOrZero(r)

\* steps 3 and 4: visual_score from the i-th promise, then final_score
scoreAll(pool, promises) ==
    LET scored == [i \in DOMAIN pool |->
                     [pool[i] EXCEPT !.visual_score = parsedVisualScore(promises[i])]]
        maxRev == maxReviews(scored)
    IN  [i \in DOMAIN pool |->
            [scored[i] EXCEPT !.final_score = finalScore(scored[i], maxRev)]]

\* the sort of step 5 with the comparator reversed (a.final_score - b.final_score)
sortByFinalScoreAscending(pool) ==
    CHOOSE sorted \in SortOutcomes(pool, [i \in DOMAIN pool |-> pool[i].final_score], FALSE) :
        TRUE

\* step 5: pool.sort((a, b) => b.final_score - a.final_score)
sortByFinalScore(pool) ==
    CHOOSE sorted \in SortOutcomes(pool, [i \in DOMAIN pool |-> pool[i].final_score], TRUE) :
        TRUE

----------------------------------------------------------------------------
(* Curation Layer, route.ts 120-160 *)

priceBrackets ==
    [budget   |-> [min |-> 0, max |-> 75 * PriceScale],
     midRange |-> [min |-> 75 * PriceScale, max |-> 250 * PriceScale,
                   target |-> 1625 * (PriceScale \div 10)],
     premium  |-> [min |-> 250 * PriceScale]]

inBudget(item) ==
    NumLt(parsePrice(item.price), priceBrackets.budget.max)

inMidRange(item) ==
    /\ NumGe(parsePrice(item.price), priceBrackets.midRange.min)
    /\ NumLt(parsePrice(item.price), priceBrackets.midRange.max)

inPremium(item) ==
    NumGe(parsePrice(item.price), priceBrackets.premium.min)

budgetItems(pool) ==
    SelectSeq(pool, inBudget)

\* the mid-range bucket without the brand filter of line 130
midRangeItemsUnbranded(pool) ==
    SelectSeq(pool, inMidRange)

midRangeItems(pool) ==
    SelectSeq(SelectSeq(pool, inMidRange),
              LAMBDA item : containsKnownBrand(item.title, MID_RANGE_BRANDS))

premiumItems(pool) ==
    SelectSeq(SelectSeq(pool, inPremium),
              LAMBDA item : containsKnownBrand(item.title, PREMIUM_BRANDS))

\* midRangeItems as line 127 leaves it, before the brand filter of line 130
midRangeByPrice(pool) ==
    SelectSeq(pool, inMidRange)

\* premiumItems as line 128 leaves it, before the brand filter of line 131
premiumByPrice(pool) ==
    SelectSeq(pool, inPremium)

\* items[0]
First(items) ==
    IF items = << >> THEN NoItem ELSE items[1]

\* the three `if (best) usedPositions.add(best.position)` of lines 138-140
positionsOf(picks) ==
    { x.position : x \in { y \in picks : y # NoItem } }

\* the leftover pool without the test on usedPositions
leftoverUnfiltered(pool, used) ==
    pool

\* pool.filter(item => !usedPositions.has(item.position))
leftoverOf(pool, used) ==
    SelectSeq(pool, LAMBDA item : item.position \notin used)

priceKeys(items) ==
    [i \in DOMAIN items |-> parsePrice(items[i].price)]

\* { ...item, price_tier: tier }
tagged(item, tier) ==
    [title |-> item.title, thumbnail |-> item.thumbnail, price |-> item.price,
     reviews |-> item.reviews, position |-> item.position,
     visual_score |-> item.visual_score, final_score |-> item.final_score,
     price_tier |-> tier]

\* the three pushes of lines 154-156
pushed(b, m, p) ==
    (IF b # NoItem THEN << tagged(b, "Affordable") >> ELSE << >>) \o
    (IF m # NoItem THEN << tagged(m, "Mid-Range") >> ELSE << >>) \o
    (IF p # NoItem THEN << tagged(p, "Premium") >> ELSE << >>)

\* items.slice(0, n)
slice(items, n) ==
    SubSeq(items, 1, IF Len(items) < n THEN Len(items) ELSE n)

NoResponse ==
    [none |-> TRUE]

\* NextResponse.json(body) without a status option answers 200
DefaultStatus ==
    200

\* lines 120-160 on the pool as it stands, ending with the success response
Curate(pool) ==
    LET b == First(budgetItems(pool))
        m == First(midRangeItems(pool))
        p == First(premiumItems(pool))
        used == positionsOf({b, m, p})
        leftover == leftoverOf(pool, used)
        fallback == p = NoItem /\ Len(leftover) > 0
    IN  \E sortedLeftover \in SortOutcomes(leftover, priceKeys(leftover), TRUE) :
          LET p2 == IF fallback THEN sortedLeftover[1] ELSE p
              pushedResults == pushed(b, m, p2)
          IN  \E sortedResults \in SortOutcomes(pushedResults, priceKeys(pushedResults), FALSE) :
                /\ highQualityResults' = pool
                /\ bestBudget' = b
                /\ bestMidRange' = m
                /\ bestPremiumPick' = p
                /\ bestPremium' = p2
                /\ leftoverInitial' = leftover
                /\ leftoverPool' = IF fallback THEN Tail(sortedLeftover) ELSE leftover
                /\ usedPositions' = IF fallback THEN used \cup {p2.position} ELSE used
                /\ finalResults' = sortedResults
                /\ response' = [success |-> TRUE, status |-> DefaultStatus,
                                data |-> slice(sortedResults, 3)]
                /\ pc' = "done"

----------------------------------------------------------------------------
(* The POST handler, route.ts 50-166 *)

\* request bodies: query missing, empty or given; imageBase64 missing or given
Queries ==
    { Null, << >>, <<"c","o","a","t">> }

Images ==
    { Null, <<"i","m","g">> }

curationVars ==
    << bestBudget, bestMidRange, bestPremiumPick, bestPremium, usedPositions,
       leftoverInitial, leftoverPool, finalResults >>

priceVars ==
    << priceInput, priceOutput >>

NotCalled ==
    -3

Init ==
    /\ pc = "start"
    /\ query \in Queries
    /\ imageBase64 \in Images
    /\ serpapiResponse = NotFetched
    /\ highQualityResults = << >>
    /\ scorePromises = << >>
    /\ bestBudget = NoItem
    /\ bestMidRange = NoItem
    /\ bestPremiumPick = NoItem
    /\ bestPremium = NoItem
    /\ usedPositions = {}
    /\ leftoverInitial = << >>
    /\ leftoverPool = << >>
    /\ finalResults = << >>
    /\ response = NoResponse
    /\ serpCalls = 0
    /\ oracleCalls = 0
    /\ priceInput = Null
    /\ priceOutput = NotCalled

\* the catch block of lines 162-165
CatchError ==
    /\ response' = [success |-> FALSE, status |-> 500,
                    error |-> "An error occurred during search."]
    /\ pc' = "done"

\* line 53: a falsy query is answered at once, without a status option
RejectNoQuery ==
    /\ pc = "start"
    /\ Falsy(query)
    /\ response' = [success |-> FALSE, status |-> DefaultStatus, error |-> "No query found"]
    /\ pc' = "done"
    /\ UNCHANGED << query, imageBase64, serpapiResponse, highQualityResults, scorePromises,
                    curationVars, serpCalls, oracleCalls, priceVars >>

\* lines 55-60: getJson is called and awaited
CallGetJson ==
    /\ pc = "start"
    /\ ~Falsy(query)
    /\ serpCalls' = serpCalls + 1
    /\ pc' = "fetching"
    /\ UNCHANGED << query, imageBase64, serpapiResponse, highQualityResults, scorePromises,
                    curationVars, response, oracleCalls, priceVars >>

\* getJson rejects: the await throws into the catch block
GetJsonReject ==
    /\ pc = "fetching"
    /\ CatchError
    /\ UNCHANGED << query, imageBase64, serpapiResponse, highQualityResults, scorePromises,
                    curationVars, serpCalls, oracleCalls, priceVars >>

\* getJson resolves and no listing passes the filter: lines 62-68
GetJsonResolveEmpty ==
    /\ pc = "fetching"
    /\ \E resp \in SerpapiResponses :
         /\ filterHighQuality(resp) = << >>
         /\ serpapiResponse' = resp
    /\ response' = [success |-> TRUE, status |-> DefaultStatus, data |-> << >>]
    /\ pc' = "done"
    /\ UNCHANGED << query, imageBase64, highQualityResults, scorePromises,
                    curationVars, serpCalls, oracleCalls, priceVars >>

\* getJson resolves, no image was sent: the handler runs on to line 160
GetJsonResolveCurate ==
    /\ pc = "fetching"
    /\ Falsy(imageBase64)
    /\ \E resp \in SerpapiResponses :
         /\ filterHighQuality(resp) # << >>
         /\ serpapiResponse' = resp
         /\ Curate(filterHighQuality(resp))
    /\ UNCHANGED << query, imageBase64, scorePromises, serpCalls, oracleCalls, priceVars >>

\* getJson resolves, an image was sent: lines 71-74, sharp is awaited
GetJsonResolveCompress ==
    /\ pc = "fetching"
    /\ ~Falsy(imageBase64)
    /\ \E resp \in SerpapiResponses :
         /\ filterHighQuality(resp) # << >>
         /\ serpapiResponse' = resp
         /\ highQualityResults' = filterHighQuality(resp)
    /\ pc' = "compressing"
    /\ UNCHANGED << query, imageBase64, scorePromises, curationVars, response,
                    serpCalls, oracleCalls, priceVars >>

\* sharp rejects (the image does not decode)
SharpReject ==
    /\ pc = "compressing"
    /\ CatchError
    /\ UNCHANGED << query, imageBase64, serpapiResponse, highQualityResults, scorePromises,
                    curationVars, serpCalls, oracleCalls, priceVars >>

\* lines 75-93: one generateContent call per candidate, then await Promise.all
FanOut ==
    /\ pc = "compressing"
    /\ scorePromises' = [i \in DOMAIN highQualityResults |-> Pending]
    /\ oracleCalls' = oracleCalls + Len(highQualityResults)
    /\ pc' = "scoring"
    /\ UNCHANGED << query, imageBase64, serpapiResponse, highQualityResults,
                    curationVars, response, serpCalls, priceVars >>

\* the oracle settles the i-th promise
OracleSettle(i) ==
    /\ pc = "scoring"
    /\ scorePromises[i] = Pending
    /\ \E outcome \in OracleOutcomes :
         scorePromises' = [scorePromises EXCEPT ![i] = outcome]
    /\ UNCHANGED << pc, query, imageBase64, serpapiResponse, highQualityResults,
                    curationVars, response, serpCalls, oracleCalls, priceVars >>

\* Promise.all rejects as soon as one promise has rejected
PromiseAllReject ==
    /\ pc = "scoring"
    /\ \E i \in DOMAIN scorePromises : scorePromises[i] = Rejected
    /\ CatchError
    /\ UNCHANGED << query, imageBase64, serpapiResponse, highQualityResults, scorePromises,
                    curationVars, serpCalls, oracleCalls, priceVars >>

\* Promise.all fulfils: lines 95-160 run to the response
PromiseAllResolve ==
    /\ pc = "scoring"
    /\ \A i \in DOMAIN scorePromises : scorePromises[i].st = "fulfilled"
    /\ Curate(sortByFinalScore(scoreAll(highQualityResults, scorePromises)))
    /\ UNCHANGED << query, imageBase64, serpapiResponse, scorePromises,
                    serpCalls, oracleCalls, priceVars >>

Next ==
    \/ RejectNoQuery
    \/ CallGetJson
    \/ GetJsonReject
    \/ GetJsonResolveEmpty
    \/ GetJsonResolveCurate
    \/ GetJsonResolveCompress
    \/ SharpReject
    \/ FanOut
    \/ \E i \in DOMAIN scorePromises : OracleSettle(i)
    \/ PromiseAllReject
    \/ PromiseAllResolve

Spec ==
    Init /\ [][Next]_vars

----------------------------------------------------------------------------
(* Direct calls of parsePrice *)

PriceChars ==
    {"$", "7", "5", ".", ",", "N"}

\* every string over PriceChars of at most MaxPriceLen characters, the
\* documented examples, and a missing price
PriceInputs ==
    UNION { [1..n -> PriceChars] : n \in 0..MaxPriceLen }
    \cup { <<"$","1",",","2","3","4",".","5","6">>, <<"N","/","A">>, Null }

InitPrice ==
    /\ pc = "idle"
    /\ query = Null
    /\ imageBase64 = Null
    /\ serpapiResponse = NotFetched
    /\ highQualityResults = << >>
    /\ scorePromises = << >>
    /\ bestBudget = NoItem
    /\ bestMidRange = NoItem
    /\ bestPremiumPick = NoItem
    /\ bestPremium = NoItem
    /\ usedPositions = {}
    /\ leftoverInitial = << >>
    /\ leftoverPool = << >>
    /\ finalResults = << >>
    /\ response = NoResponse
    /\ serpCalls = 0
    /\ oracleCalls = 0
    /\ priceInput \in PriceInputs
    /\ priceOutput = NotCalled

CallParsePrice ==
    /\ priceOutput = NotCalled
    /\ priceOutput' = parsePrice(priceInput)
    /\ UNCHANGED << handlerVars, priceInput >>

NextPrice ==
    CallParsePrice

SpecPrice ==
    InitPrice /\ [][NextPrice]_vars

----------------------------------------------------------------------------
(* Properties *)

\* the handler returned the success envelope
Succeeded ==
    "data" \in DOMAIN response

\* the handler ran the curation layer and returned its result
Curated ==
    pc = "done" /\ Succeeded /\ highQualityResults # << >>

Positions(items) ==
    { items[i].position : i \in DOMAIN items }

TiersOf(items) ==
    { items[i].price_tier : i \in DOMAIN items }

\* C1: the returned list never holds two entries with the same source
\* position, whether an entry is a bucket's best item or the fallback
Thm_C1_UniquePositions ==
    Succeeded =>
        \A i, j \in DOMAIN response.data :
            i # j => response.data[i].position # response.data[j].position

\* a three-entry result whose Premium entry came from the fallback
Wit_C1_FallbackTrio ==
    /\ Curated
    /\ Len(response.data) = 3
    /\ bestPremiumPick = NoItem
    /\ bestPremium # NoItem

\* C2: the returned list is in ascending order of parsed price, for every
\* adjacent pair, also when a price string has no digits
CE_C2_AscendingPrice ==
    Succeeded =>
        \A i \in 1..(Len(response.data) - 1) :
            NumLe(parsePrice(response.data[i].price), parsePrice(response.data[i + 1].price))

\* C3: a tier is missing from the result only if no leftover remains, and a
\* pool of at least three candidates yields three entries, one per tier
CE_C3_TierOmittedOnlyWhenExhausted ==
    Curated =>
        /\ \A tier \in {"Affordable", "Mid-Range", "Premium"} :
              tier \notin TiersOf(response.data) => leftoverPool = << >>
        /\ Len(highQualityResults) >= 3 =>
              /\ Len(response.data) = 3
              /\ TiersOf(response.data) = {"Affordable", "Mid-Range", "Premium"}

\* C4: when the Premium bucket gives no pick and leftovers exist, the entry
\* labelled Premium is a leftover, no other leftover with a numeric price
\* is dearer, and its position is marked used
CE_C4_PremiumFallbackHighest ==
    (Curated /\ bestPremiumPick = NoItem /\ leftoverInitial # << >>) =>
        \E i \in DOMAIN response.data :
            LET e == response.data[i] IN
            /\ e.price_tier = "Premium"
            /\ e.position \in Positions(leftoverInitial)
            /\ e.position \in usedPositions
            /\ \A k \in DOMAIN leftoverInitial :
                  LET x == leftoverInitial[k] IN
                  (x.position # e.position /\ parsePrice(x.price) # NaN) =>
                      NumGe(parsePrice(e.price), parsePrice(x.price))

\* C5: when no candidate is priced below 75 and leftovers remain after the
\* Premium fallback, an entry is labelled Affordable and it is the cheapest
\* of those leftovers
CE_C5_AffordableFallback ==
    (/\ Curated
     /\ \A k \in DOMAIN highQualityResults :
            ~NumLt(parsePrice(highQualityResults[k].price), priceBrackets.budget.max)
     /\ leftoverPool # << >>) =>
        \E i \in DOMAIN response.data :
            LET e == response.data[i] IN
            /\ e.price_tier = "Affordable"
            /\ e.position \in Positions(leftoverPool)
            /\ \A k \in DOMAIN leftoverPool :
                  NumLe(parsePrice(e.price), parsePrice(leftoverPool[k].price))

\* distance of a price to the Mid-Range target
TargetDistance(p) ==
    IF p = NaN THEN NaN
    ELSE IF p >= priceBrackets.midRange.target
         THEN p - priceBrackets.midRange.target
         ELSE priceBrackets.midRange.target - p

\* C6: when the Mid-Range bucket gives no pick and a leftover remains after
\* the Premium and Affordable fallbacks took theirs, an entry is labelled
\* Mid-Range and it is the remaining leftover closest to 162.5
CE_C6_MidRangeFallbackLast ==
    (/\ Curated
     /\ bestMidRange = NoItem
     /\ Len(leftoverPool) > (IF bestBudget = NoItem THEN 1 ELSE 0)) =>
        \E i \in DOMAIN response.data :
            LET e == response.data[i] IN
            /\ e.price_tier = "Mid-Range"
            /\ e.position \in Positions(leftoverPool)
            /\ \A k \in DOMAIN leftoverPool :
                  LET x == leftoverPool[k] IN
                  x.position \notin Positions(response.data) =>
                      NumLe(TargetDistance(parsePrice(e.price)),
                            TargetDistance(parsePrice(x.price)))

\* the i-th oracle call threw or answered with text that does not parse
OracleFailed(i) ==
    scorePromises[i] = Rejected
    \/ (scorePromises[i].st = "fulfilled" /\ ~scorePromises[i].json)

\* C7: when an oracle call throws or answers unparsably, the request still
\* succeeds, that candidate has visual_score 0 and all N have a final_score
CE_C7_ScoringFailureIsolation ==
    (pc = "done" /\ \E i \in DOMAIN scorePromises : OracleFailed(i)) =>
        /\ Succeeded
        /\ Len(highQualityResults) = Len(scorePromises)
        /\ \A k \in DOMAIN highQualityResults :
              highQualityResults[k].final_score # Undefined
        /\ \A i \in DOMAIN scorePromises :
              OracleFailed(i) =>
                  \E k \in DOMAIN highQualityResults :
                      /\ highQualityResults[k].position
                            = filterHighQuality(serpapiResponse)[i].position
                      /\ highQualityResults[k].visual_score = 0

\* C8: parsePrice returns a non-negative number for every input, and 0 for
\* a missing or empty input and for one without any digit
CE_C8_ParsePriceNonNegative ==
    priceOutput # NotCalled =>
        /\ priceOutput # NaN
        /\ priceOutput >= 0
        /\ (Falsy(priceInput) \/ \A i \in DOMAIN priceInput : priceInput[i] \notin Digits)
              => priceOutput = 0

\* C9: a request without a query gets the failure envelope with a non-2xx
\* status, and neither the shopping source nor the oracle is called
CE_C9_MissingQueryRejected ==
    (pc = "done" /\ Falsy(query)) =>
        /\ "error" \in DOMAIN response
        /\ response.success = FALSE
        /\ response.status \notin 200..299
        /\ serpCalls = 0
        /\ oracleCalls = 0

\* some listing of the source response has both a price and a thumbnail
SomeListingComplete ==
    /\ "shopping_results" \in DOMAIN serpapiResponse
    /\ \E i \in DOMAIN serpapiResponse.shopping_results :
          /\ ~Falsy(serpapiResponse.shopping_results[i].price)
          /\ ~Falsy(serpapiResponse.shopping_results[i].thumbnail)

\* C10: the returned list has 0 to 3 entries, and it is the empty success
\* list exactly when no listing has both a price and a thumbnail
Thm_C10_SizeBoundAndEmpty ==
    (pc = "done" /\ serpapiResponse # NotFetched) =>
        /\ Succeeded => Len(response.data) \in 0..3
        /\ (Succeeded /\ response.data = << >>) <=> ~SomeListingComplete

\* the source returned listings, none complete, and the answer is empty
Wit_C10_EmptySuccess ==
    /\ pc = "done"
    /\ "shopping_results" \in DOMAIN serpapiResponse
    /\ Len(serpapiResponse.shopping_results) > 0
    /\ Succeeded
    /\ response.data = << >>

\* the number of price buckets of lines 126-128 that hold the item
BucketCount(item) ==
    Cardinality({ name \in {"budget", "midRange", "premium"} :
        item.position \in Positions(CASE name = "budget" -> budgetItems(highQualityResults)
                                      [] name = "midRange" -> midRangeByPrice(highQualityResults)
                                      [] name = "premium" -> premiumByPrice(highQualityResults)) })

\* C11: every candidate of the pool is in exactly one of the three price
\* buckets before the brand filter is applied
CE_C11_PartitionExhaustiveExclusive ==
    Curated =>
        \A k \in DOMAIN highQualityResults : BucketCount(highQualityResults[k]) = 1

\* visual scoring was performed and the curation ran on the ranked pool
Scored ==
    Curated /\ scorePromises # << >>

\* the candidate belongs to the tier's bucket: its price bracket, and for
\* Mid-Range and Premium a known brand of that tier in the title
InBucket(item, tier) ==
    LET price == parsePrice(item.price) IN
    CASE tier = "Affordable" -> NumLt(price, 75 * PriceScale)
      [] tier = "Mid-Range" -> /\ NumGe(price, 75 * PriceScale)
                               /\ NumLt(price, 250 * PriceScale)
                               /\ containsKnownBrand(item.title, MID_RANGE_BRANDS)
      [] tier = "Premium" -> /\ NumGe(price, 250 * PriceScale)
                             /\ containsKnownBrand(item.title, PREMIUM_BRANDS)

\* the candidate selected for a tier's bucket, before any fallback
BucketPick(tier) ==
    CASE tier = "Affordable" -> bestBudget
      [] tier = "Mid-Range" -> bestMidRange
      [] tier = "Premium" -> bestPremiumPick

\* index of the candidate in the ranked pool
RankOf(item) ==
    CHOOSE k \in DOMAIN highQualityResults : highQualityResults[k].position = item.position

\* C12: after visual scoring, the candidate selected for each non-empty
\* bucket has a final_score at least that of every candidate of the bucket,
\* and among equal scores it is the first of them in the ranked pool
Thm_C12_BucketPickHasTopScore ==
    Scored =>
        \A tier \in {"Affordable", "Mid-Range", "Premium"} :
            LET pick == BucketPick(tier)
                members == { k \in DOMAIN highQualityResults :
                               InBucket(highQualityResults[k], tier) }
            IN  /\ members # {} <=> pick # NoItem
                /\ pick # NoItem =>
                      /\ RankOf(pick) \in members
                      /\ \A k \in members :
                            /\ highQualityResults[k].final_score <= pick.final_score
                            /\ highQualityResults[k].final_score = pick.final_score
                                  => RankOf(pick) <= k

\* a bucket with two candidates of different final_score whose pick is not
\* the one the source listed first
Wit_C12_RankingChangedPick ==
    /\ Scored
    /\ \E tier \in {"Affordable", "Mid-Range", "Premium"} :
          /\ BucketPick(tier) # NoItem
          /\ \E k \in DOMAIN highQualityResults :
                /\ InBucket(highQualityResults[k], tier)
                /\ highQualityResults[k].position < BucketPick(tier).position
                /\ highQualityResults[k].final_score < BucketPick(tier).final_score

\* the review count of a candidate, an absent count taken as 0
ReviewCount(item) ==
    IF item.reviews = Undefined THEN 0 ELSE item.reviews

\* the largest review count of the ranked pool, floored at 1
PoolMaxReviews ==
    LET counts == { ReviewCount(highQualityResults[k]) : k \in DOMAIN highQualityResults }
                  \cup {1}
    IN  CHOOSE m \in counts : \A c \in counts : c <= m

\* the candidates that entered the pool, in the order of the source
EnteredPool ==
    filterHighQuality(serpapiResponse)

\* C13: final_score = 0.8 * (visual_score / 10) + 0.2 * (reviews / maxReviews)
\* (final_score is held multiplied by 100 * maxReviews); the ranked pool is
\* in non-increasing final_score order and holds the candidates that entered,
\* with price, title and position unchanged; when every review count is 0 the
\* order is by descending visual_score
Thm_C13_HybridScoreRanking ==
    Scored =>
        /\ \A k \in DOMAIN highQualityResults :
              highQualityResults[k].final_score
                 = 8 * highQualityResults[k].visual_score * PoolMaxReviews
                   + 20 * ReviewCount(highQualityResults[k])
        /\ \A k \in 1..(Len(highQualityResults) - 1) :
              highQualityResults[k].final_score >= highQualityResults[k + 1].final_score
        /\ Len(highQualityResults) = Len(EnteredPool)
        /\ \A i \in DOMAIN EnteredPool :
              \E k \in DOMAIN highQualityResults :
                 /\ highQualityResults[k].position = EnteredPool[i].position
                 /\ highQualityResults[k].price = EnteredPool[i].price
                 /\ highQualityResults[k].title = EnteredPool[i].title
        /\ (\A k \in DOMAIN highQualityResults : ReviewCount(highQualityResults[k]) = 0) =>
              \A k \in 1..(Len(highQualityResults) - 1) :
                 highQualityResults[k].visual_score >= highQualityResults[k + 1].visual_score

\* a ranked pool with review counts above 1 whose order differs from the
\* order of the source
Wit_C13_Reordered ==
    /\ Scored
    /\ PoolMaxReviews > 1
    /\ \E k \in 1..(Len(highQualityResults) - 1) :
          /\ highQualityResults[k].position > highQualityResults[k + 1].position
          /\ highQualityResults[k].final_score > highQualityResults[k + 1].final_score

\* the entry of the returned list with the given label
EntryOf(tier) ==
    CHOOSE e \in { response.data[i] : i \in DOMAIN response.data } : e.price_tier = tier

\* C14: in every result an entry labelled Affordable is priced below 75 and
\* an entry labelled Mid-Range is priced in [75, 250) and carries a mid-range
\* brand in its title; only the Premium label is given outside its bracket
Thm_C14_LabelsWithinBracket ==
    Succeeded =>
        \A i \in DOMAIN response.data :
            LET e == response.data[i]
                price == parsePrice(e.price)
            IN  /\ e.price_tier \in {"Affordable", "Mid-Range", "Premium"}
                /\ e.price_tier = "Affordable" => NumLt(price, 75 * PriceScale)
                /\ e.price_tier = "Mid-Range" =>
                      /\ NumGe(price, 75 * PriceScale)
                      /\ NumLt(price, 250 * PriceScale)
                      /\ containsKnownBrand(e.title, MID_RANGE_BRANDS)

\* a result whose Premium entry, taken by the fallback, is cheaper than its
\* Affordable entry
Wit_C14_PremiumCheaperThanAffordable ==
    /\ Curated
    /\ {"Affordable", "Premium"} \subseteq TiersOf(response.data)
    /\ bestPremiumPick = NoItem
    /\ NumLt(parsePrice(EntryOf("Premium").price), parsePrice(EntryOf("Affordable").price))

====
